---- MODULE Spec2Model ----
(***************************************************************************)
(* The asteroid dashboard script (streamlit_app.py) as a state machine.    *)
(*                                                                         *)
(* One script run of a browser session is a render cycle: the cached load  *)
(* of line 89, then the rest of the script (de-duplication, sidebar        *)
(* widgets, filters, metrics, daily aggregate, top-N chart, footer).       *)
(* The two st.cache_data(ttl=3600) caches are shared by all sessions.      *)
(*                                                                         *)
(* Numbers: distances are whole kilometres, diameters whole metres (the    *)
(* code only orders diameters), velocities are IEEE-754 binary64 values    *)
(* held as an exact 53-bit mantissa and a binary scale, because the        *)
(* slider bounds of lines 111-118 are computed in floating point.          *)
(***************************************************************************)
EXTENDS Integers, Sequences, FiniteSets, TLC

(***************************************************************************)
(* Bounds of the model.                                                    *)
(***************************************************************************)
\* Longest upstream table that is enumerated.
MaxRows == 3
\* The clock runs over the instants around the first MaxPeriods cache periods.
MaxPeriods == 1

(***************************************************************************)
(* Program constants.                                                      *)
(***************************************************************************)
\* @st.cache_data(ttl=3600), lines 68 and 342: seconds.
TTL == 3600
\* interval '7' day, line 85.
WindowDays == 7
\* max_distance * 1_000_000, line 143: the slider counts millions of km.
KmPerMillion == 1000000
\* step=0.5 of the distance slider, line 106: two slider steps per million km.
StepsPerMillion == 2
\* velocity * 100, lines 114-115: the velocity slider counts hundredths.
Hundred == 100
\* Significand width of a Python float (binary64).
MantBits == 53

(***************************************************************************)
(* Exact binary64 arithmetic on positive values.                           *)
(* A natural number below 2^75 is a tuple of five 15-bit limbs, least      *)
(* significant first.  A float is [m, s] with value m / 2^s and            *)
(* 2^52 <= m < 2^53, or zero (m = 0).                                      *)
(***************************************************************************)
LimbBits == 15
LimbBase == 2^LimbBits

BigFromInt(n) == <<n % LimbBase, (n \div LimbBase) % LimbBase, n \div (LimbBase * LimbBase), 0, 0>>
BigToInt(x) == x[1] + x[2] * LimbBase + x[3] * LimbBase * LimbBase
BigZero == <<0, 0, 0, 0, 0>>
BigPow2(k) ==
    LET at == (k \div LimbBits) + 1
        bit == 2^(k % LimbBits)
    IN <<IF at = 1 THEN bit ELSE 0, IF at = 2 THEN bit ELSE 0, IF at = 3 THEN bit ELSE 0,
         IF at = 4 THEN bit ELSE 0, IF at = 5 THEN bit ELSE 0>>

\* x * c for 0 < c <= 2^15, carried limb by limb
BigMulSmall(x, c) ==
    LET p1 == x[1] * c
        p2 == x[2] * c + p1 \div LimbBase
        p3 == x[3] * c + p2 \div LimbBase
        p4 == x[4] * c + p3 \div LimbBase
        p5 == x[5] * c + p4 \div LimbBase
    IN <<p1 % LimbBase, p2 % LimbBase, p3 % LimbBase, p4 % LimbBase, p5 % LimbBase>>

\* quotient and remainder of x by 0 < c <= 2^15, long division from the top limb
BigDivSmall(x, c) ==
    LET a5 == x[5]
        a4 == (a5 % c) * LimbBase + x[4]
        a3 == (a4 % c) * LimbBase + x[3]
        a2 == (a3 % c) * LimbBase + x[2]
        a1 == (a2 % c) * LimbBase + x[1]
    IN [q |-> <<a1 \div c, a2 \div c, a3 \div c, a4 \div c, a5 \div c>>, r |-> a1 % c]

\* x + a for 0 <= a < 2^15
BigAddSmall(x, a) ==
    LET p1 == x[1] + a
        p2 == x[2] + p1 \div LimbBase
        p3 == x[3] + p2 \div LimbBase
        p4 == x[4] + p3 \div LimbBase
        p5 == x[5] + p4 \div LimbBase
    IN <<p1 % LimbBase, p2 % LimbBase, p3 % LimbBase, p4 % LimbBase, p5 % LimbBase>>

\* x - 1 for x > 0: the limbs below the lowest non-zero limb borrow.
RECURSIVE BorrowAt(_, _)
BorrowAt(x, i) == IF i = 1 THEN TRUE ELSE x[i-1] = 0 /\ BorrowAt(x, i-1)
BorrowLimb(x, i) == IF BorrowAt(x, i) THEN (x[i] + LimbBase - 1) % LimbBase ELSE x[i]
BigPred(x) ==
    <<BorrowLimb(x, 1), BorrowLimb(x, 2), BorrowLimb(x, 3), BorrowLimb(x, 4), BorrowLimb(x, 5)>>

RECURSIVE BigCmpFrom(_, _, _)
BigCmpFrom(x, y, i) ==
    IF i = 0 THEN 0
    ELSE IF x[i] < y[i] THEN -1
    ELSE IF x[i] > y[i] THEN 1
    ELSE BigCmpFrom(x, y, i-1)
BigLess(x, y) == BigCmpFrom(x, y, 5) < 0

\* 2^52 <= m < 2^53 for the significand m of a float; one more bit while dividing
MantLow == BigPow2(MantBits - 1)
MantHigh == BigPow2(MantBits)
MantWide == BigPow2(MantBits + 1)

FZero == [m |-> BigZero, s |-> 0]
IsFZero(v) == v.m = BigZero

RECURSIVE ScaleUp(_, _)
ScaleUp(N, s) ==
    IF BigLess(N, MantLow) THEN ScaleUp(BigMulSmall(N, 2), s + 1)
    ELSE [m |-> N, s |-> s]

RECURSIVE ExcessBits(_, _)
ExcessBits(N, d) ==
    IF BigLess(BigDivSmall(N, 2^d).q, MantHigh) THEN d ELSE ExcessBits(N, d + 1)

\* A significand that rounding carried up to 2^53 is 2^52 at the next exponent.
Rounded(m, s) == IF m = MantHigh THEN [m |-> MantLow, s |-> s - 1] ELSE [m |-> m, s |-> s]

\* Round to nearest, ties to even: qr is the quotient and remainder of the
\* exact value by 2 * half.
RoundQuot(qr, half, s) ==
    Rounded(IF qr.r > half \/ (qr.r = half /\ qr.q[1] % 2 = 1)
            THEN BigAddSmall(qr.q, 1) ELSE qr.q, s)

\* N / 2^s with its d excess bits rounded away
RoundOff(N, s, d) == RoundQuot(BigDivSmall(N, 2^d), 2^(d - 1), s - d)

\* The binary64 nearest to N / 2^s, ties to even.
RoundNearestEven(N, s) ==
    IF BigLess(N, MantHigh) THEN ScaleUp(N, s) ELSE RoundOff(N, s, ExcessBits(N, 1))

\* v * c in binary64, for a whole number 0 < c <= 128.
FMul(v, c) == IF IsFZero(v) THEN FZero ELSE RoundNearestEven(BigMulSmall(v.m, c), v.s)

RECURSIVE BitLen(_)
BitLen(n) == IF n = 0 THEN 0 ELSE 1 + BitLen(n \div 2)

RECURSIVE RaiseLimbs(_, _)
RaiseLimbs(x, k) == IF k = 0 THEN x ELSE RaiseLimbs(<<0, x[1], x[2], x[3], x[4]>>, k - 1)
\* x * 2^t, for a result below 2^75
BigShiftLeft(x, t) == BigMulSmall(RaiseLimbs(x, t \div LimbBits), 2^(t % LimbBits))

\* The scale t at which floor(n * 2^t / c) has MantBits + 1 bits: the bit
\* lengths of n and c give it to within one.
ScaleFit(n, c, t) ==
    IF BigLess(BigDivSmall(BigShiftLeft(BigFromInt(n), t), c).q, MantWide) THEN t ELSE t - 1
ScaleDiv(n, c) == ScaleFit(n, c, (MantBits + 1) - (BitLen(n) - BitLen(c)))

\* Round the (MantBits + 1)-bit quotient qr.q to MantBits bits: h is qr.q halved,
\* the remainder qr.r is the sticky part below it.
HalfRound(h, r, t) ==
    Rounded(IF h.r = 1 /\ (r # 0 \/ h.q[1] % 2 = 1) THEN BigAddSmall(h.q, 1) ELSE h.q, t - 1)
QuotRound(qr, t) == HalfRound(BigDivSmall(qr.q, 2), qr.r, t)
DivRound(n, c, t) == QuotRound(BigDivSmall(BigShiftLeft(BigFromInt(n), t), c), t)

\* n / c in binary64, for whole numbers 0 <= n < 2^30 and 0 < c < 2^15.
FDiv(n, c) == IF n = 0 THEN FZero ELSE DivRound(n, c, ScaleDiv(n, c))

DropLimb(x) == <<x[2], x[3], x[4], x[5], 0>>
\* x \div 2^s, and whether nothing was shifted out
RECURSIVE ShiftRight(_, _)
ShiftRight(x, s) ==
    IF s >= LimbBits
    THEN LET r == ShiftRight(DropLimb(x), s - LimbBits)
         IN [q |-> r.q, exact |-> r.exact /\ x[1] = 0]
    ELSE LET qr == BigDivSmall(x, 2^s) IN [q |-> qr.q, exact |-> qr.r = 0]

\* math.floor and math.ceil of a float below 2^30.
Floor(v) == IF IsFZero(v) \/ v.s >= MantBits THEN 0 ELSE BigToInt(ShiftRight(v.m, v.s).q)
WholeAbove(sh) == BigToInt(sh.q) + (IF sh.exact THEN 0 ELSE 1)
Ceil(v) ==
    IF IsFZero(v) THEN 0
    ELSE IF v.s >= MantBits THEN 1
    ELSE WholeAbove(ShiftRight(v.m, v.s))

FLess(a, b) ==
    IF IsFZero(b) THEN FALSE
    ELSE IF IsFZero(a) THEN TRUE
    ELSE a.s > b.s \/ (a.s = b.s /\ BigLess(a.m, b.m))
FLeq(a, b) == ~FLess(b, a)

\* The float just below a positive float (an input value, not a program step).
FPred(v) ==
    IF v.m = MantLow THEN [m |-> BigPred(MantHigh), s |-> v.s + 1]
    ELSE [m |-> BigPred(v.m), s |-> v.s]

(***************************************************************************)
(* Calendar dates.  close_approach_date is a '%Y-%m-%d' string; such       *)
(* strings are held as <<year, month, day>>, and the string comparison of  *)
(* line 85 is the lexicographic comparison of the zero-padded fields.      *)
(***************************************************************************)
IsLeap(y) == (y % 4 = 0 /\ y % 100 # 0) \/ y % 400 = 0
DaysInMonth(y, m) ==
    IF m = 2 THEN (IF IsLeap(y) THEN 29 ELSE 28)
    ELSE IF m \in {4, 6, 9, 11} THEN 30 ELSE 31
PrevDay(d) ==
    IF d[3] > 1 THEN <<d[1], d[2], d[3] - 1>>
    ELSE IF d[2] > 1 THEN <<d[1], d[2] - 1, DaysInMonth(d[1], d[2] - 1)>>
    ELSE <<d[1] - 1, 12, 31>>
RECURSIVE MinusDays(_, _)
\* current_date - interval 'n' day
MinusDays(d, n) == IF n = 0 THEN d ELSE MinusDays(PrevDay(d), n - 1)
\* date_format(d, '%Y-%m-%d')
date_format(d) == <<d[1], d[2], d[3]>>
\* a <= b on '%Y-%m-%d' strings
StrLeq(a, b) ==
    \/ a[1] < b[1]
    \/ a[1] = b[1] /\ a[2] < b[2]
    \/ a[1] = b[1] /\ a[2] = b[2] /\ a[3] <= b[3]

(***************************************************************************)
(* The rows of nasa_neo_database.asteroids that the tables are built from. *)
(***************************************************************************)
Row(id, name, date, miss, vel, haz, dmin, dmax) ==
    [id |-> id, name |-> name, close_approach_date |-> date,
     miss_distance_km |-> miss, velocity_km_s |-> vel,
     is_potentially_hazardous |-> haz,
     min_diameter_km |-> dmin, max_diameter_km |-> dmax]

RowA == Row(1, "A", <<2025, 2, 1>>,   500000, FDiv(10, 1),          FALSE, 100,  500)
RowB == Row(2, "B", <<2025, 2, 1>>, 40000000, FDiv(20, 1),          TRUE,  1000, 3000)
\* the same (id, date) as A, other fields differing; zero miss distance
RowC == Row(1, "C", <<2025, 2, 1>>,        0, FDiv(1234, 100),      TRUE,  1000, 3000)
\* seven days before 2025-02-03; velocity 0.09999999999999999
RowD == Row(3, "D", <<2025, 1, 27>>,       0, FPred(FDiv(10, 100)), FALSE, 1000, 3000)
\* the day after 2025-02-03
RowE == Row(4, "E", <<2025, 2, 4>>,   500001, FDiv(173145, 10000),  TRUE,  100,  500)

Catalogue == {RowA, RowB, RowC, RowD, RowE}

CurrentDates == {<<2025, 2, 3>>, <<2025, 2, 4>>}

RECURSIVE SeqsUpTo(_, _)
SeqsUpTo(S, n) ==
    IF n = 0 THEN {<<>>}
    ELSE LET shorter == SeqsUpTo(S, n - 1)
         IN shorter \cup {Append(t, x) : t \in {u \in shorter : Len(u) = n - 1}, x \in S}

\* Every table of at most MaxRows catalogue rows, repeats allowed.
Tables == SeqsUpTo(Catalogue, MaxRows)

(***************************************************************************)
(* load_asteroid_data: the query of lines 74-87.                           *)
(***************************************************************************)
Query(table, today) ==
    LET from == date_format(MinusDays(today, WindowDays))
    IN SelectSeq(table, LAMBDA r : StrLeq(from, r.close_approach_date))

(***************************************************************************)
(* df.drop_duplicates(subset=["id", "close_approach_date"]), line 92:      *)
(* keep='first' is the default.                                            *)
(***************************************************************************)
SameKey(a, b) == a.id = b.id /\ a.close_approach_date = b.close_approach_date

RECURSIVE drop_duplicates_last(_)
drop_duplicates_last(rows) ==
    IF rows = <<>> THEN <<>>
    ELSE LET rest == Tail(rows)
         IN IF \E j \in 1..Len(rest) : SameKey(rest[j], Head(rows))
            THEN drop_duplicates_last(rest)
            ELSE <<Head(rows)>> \o drop_duplicates_last(rest)

RECURSIVE drop_duplicates(_)
drop_duplicates(rows) ==
    IF rows = <<>> THEN <<>>
    ELSE LET n == Len(rows)
             kept == drop_duplicates(SubSeq(rows, 1, n - 1))
         IN IF \E j \in 1..Len(kept) : SameKey(kept[j], rows[n])
            THEN kept
            ELSE Append(kept, rows[n])

(***************************************************************************)
(* Sidebar widgets, lines 96-134.                                          *)
(* max_distance is held in slider steps of 0.5 (160 is the default 80.0);  *)
(* velocity_range is a pair of floats on the slider's grid of hundredths.   *)
(***************************************************************************)
HazardOptions == {"All", "Potentially Hazardous", "Non-Hazardous"}
DistanceSteps == {0, 1, 80 * StepsPerMillion}
TopNOptions == {1, 2, 10}

RECURSIVE FMinOf(_)
FMinOf(vs) ==
    IF Len(vs) = 1 THEN vs[1]
    ELSE LET m == FMinOf(Tail(vs)) IN IF FLess(m, vs[1]) THEN m ELSE vs[1]
RECURSIVE FMaxOf(_)
FMaxOf(vs) ==
    IF Len(vs) = 1 THEN vs[1]
    ELSE LET m == FMaxOf(Tail(vs)) IN IF FLess(vs[1], m) THEN m ELSE vs[1]

Velocities(df) == [i \in 1..Len(df) |-> df[i].velocity_km_s]

\* lines 111-118 before the division by 100: the bounds in whole hundredths.
\* Both are whole.  When they are equal the float test of line 117 holds and
\* round(slider_min + 0.01, 2) of line 118 is one hundredth above slider_min.
\* When they are one apart the float test may hold too (0.08 - 0.07 < 0.01),
\* and line 118 then gives high / 100 again; two or more apart it never holds.
StepsBetween(low, high) == <<low, IF high - low < 1 THEN low + 1 ELSE high>>
SliderSteps(df) ==
    StepsBetween(Floor(FMul(FMinOf(Velocities(df)), Hundred)),
                 Ceil(FMul(FMaxOf(Velocities(df)), Hundred)))

\* The float a slider position stands for: hundredths / 100.
SliderValue(h) == FDiv(h, Hundred)

\* lines 109-120: slider_min and slider_max
BoundsAt(steps) == [slider_min |-> SliderValue(steps[1]), slider_max |-> SliderValue(steps[2])]
SliderBounds(df) ==
    IF Len(df) > 0 THEN BoundsAt(SliderSteps(df))
    ELSE [slider_min |-> FZero, slider_max |-> FDiv(100, 1)]

\* value=(slider_min, slider_max), line 126
RangeOf(b) == <<b.slider_min, b.slider_max>>
DefaultRange(df) == RangeOf(SliderBounds(df))

\* The slider positions tried: each end at its bound or one step inside.
RangesAt(steps) ==
    {<<SliderValue(r[1]), SliderValue(r[2])>> :
        r \in {p \in {steps[1], steps[1] + 1} \X {steps[2] - 1, steps[2]} : p[1] <= p[2]}}
RangeOptions(df) == IF Len(df) > 0 THEN RangesAt(SliderSteps(df)) ELSE {DefaultRange(df)}

Criteria(df) ==
    {[hazardous_filter |-> h, max_distance |-> m, velocity_range |-> v, top_n |-> n] :
        h \in HazardOptions, m \in DistanceSteps, v \in RangeOptions(df), n \in TopNOptions}

DefaultCriteria(df) ==
    [hazardous_filter |-> "All", max_distance |-> 80 * StepsPerMillion,
     velocity_range |-> DefaultRange(df), top_n |-> 10]

(***************************************************************************)
(* Filters, lines 137-147.                                                 *)
(***************************************************************************)
HazardFilter(df, hazardous_filter) ==
    IF hazardous_filter = "Potentially Hazardous"
    THEN SelectSeq(df, LAMBDA r : r.is_potentially_hazardous = TRUE)
    ELSE IF hazardous_filter = "Non-Hazardous"
    THEN SelectSeq(df, LAMBDA r : r.is_potentially_hazardous = FALSE)
    ELSE df

\* max_distance * 1_000_000, with max_distance in steps of 0.5
MaxDistanceKm(max_distance) == (max_distance * KmPerMillion) \div StepsPerMillion

DistanceFilterStrict(df, max_distance) ==
    SelectSeq(df, LAMBDA r : r.miss_distance_km < MaxDistanceKm(max_distance))

DistanceFilter(df, max_distance) ==
    SelectSeq(df, LAMBDA r : r.miss_distance_km <= MaxDistanceKm(max_distance))

VelocityFilter(df, velocity_range) ==
    SelectSeq(df, LAMBDA r : /\ FLeq(velocity_range[1], r.velocity_km_s)
                             /\ FLeq(r.velocity_km_s, velocity_range[2]))

ApplyFilters(df, c) ==
    VelocityFilter(DistanceFilter(HazardFilter(df, c.hazardous_filter), c.max_distance),
                   c.velocity_range)

(***************************************************************************)
(* Metrics row, lines 150-161.                                             *)
(***************************************************************************)
RECURSIVE MinMiss(_)
MinMiss(df) ==
    IF Len(df) = 1 THEN df[1].miss_distance_km
    ELSE LET m == MinMiss(Tail(df))
         IN IF df[1].miss_distance_km < m THEN df[1].miss_distance_km ELSE m

\* line 157
Closest(filtered_df) == IF Len(filtered_df) > 0 THEN MinMiss(filtered_df) ELSE 0

\* line 158: the text of the metric.  For "M km" the digits shown are km / 1_000_000
\* to two decimals; the model keeps the kilometres they are printed from.
ClosestMetric(closest) ==
    IF closest > 0 THEN [text |-> "M km", km |-> closest] ELSE [text |-> "N/A", km |-> 0]

HazardousCount(filtered_df) ==
    Len(SelectSeq(filtered_df, LAMBDA r : r.is_potentially_hazardous = TRUE))

(***************************************************************************)
(* Daily aggregate, lines 170-180: groupby sorts its keys.                 *)
(***************************************************************************)
RECURSIVE SortDates(_)
SortDates(S) ==
    IF S = {} THEN <<>>
    ELSE LET first == CHOOSE d \in S : \A e \in S : StrLeq(d, e)
         IN <<first>> \o SortDates(S \ {first})

RECURSIVE SumMiss(_)
SumMiss(df) == IF df = <<>> THEN 0 ELSE df[1].miss_distance_km + SumMiss(Tail(df))

\* A variant whose count column aggregates the hazard flag instead of the size.
DailyRowHazardCount(filtered_df, date) ==
    LET group == SelectSeq(filtered_df, LAMBDA r : r.close_approach_date = date)
    IN [close_approach_date |-> date,
        count |-> HazardousCount(group),
        hazardous |-> HazardousCount(group),
        avg_distance |-> SumMiss(group) \div Len(group)]

\* One row of the aggregate; avg_distance is the mean in whole km.
DailyRow(filtered_df, date) ==
    LET group == SelectSeq(filtered_df, LAMBDA r : r.close_approach_date = date)
    IN [close_approach_date |-> date,
        count |-> Len(group),
        hazardous |-> HazardousCount(group),
        avg_distance |-> SumMiss(group) \div Len(group)]

DatesOf(df) == {df[i].close_approach_date : i \in 1..Len(df)}

daily_counts(filtered_df) ==
    LET dates == SortDates(DatesOf(filtered_df))
    IN [k \in 1..Len(dates) |-> DailyRow(filtered_df, dates[k])]

(***************************************************************************)
(* Top-N chart, lines 286-291.  sort_values is called without kind=, so    *)
(* the sort is pandas' default quicksort, which is not stable: any order   *)
(* that is non-increasing in max_diameter_km can come out.                 *)
(***************************************************************************)
Orders(n) == {p \in [1..n -> 1..n] : \A i, j \in 1..n : p[i] = p[j] => i = j}

SortedDescending(df) ==
    {[k \in 1..Len(df) |-> df[p[k]]] : p \in
        {q \in Orders(Len(df)) :
            \A i, j \in 1..Len(df) :
                i < j => df[q[i]].max_diameter_km >= df[q[j]].max_diameter_km}}

Min(a, b) == IF a < b THEN a ELSE b

\* .head(top_n)
HeadRows(df, n) == SubSeq(df, 1, Min(n, Len(df)))

topn_outcomes(filtered_df, top_n) ==
    {HeadRows(sorted, top_n) : sorted \in SortedDescending(filtered_df)}

(***************************************************************************)
(* State.                                                                  *)
(***************************************************************************)
VARIABLES
    now,           \* the clock, in seconds
    current_date,  \* current_date as the query engine reports it
    asteroids,     \* the rows of nasa_neo_database.asteroids, as the latest query saw them
    data_cache,    \* the st.cache_data entry of load_asteroid_data
    time_cache,    \* the st.cache_data entry of get_data_refresh_time
    compute_lock,  \* the session computing load_asteroid_data, or "free"
    pc,            \* per session: where its script run is
    loaded,        \* per session: what load_asteroid_data returned (line 89)
    view,          \* per session: what the script run has put on the page
    call,          \* per session: how the call of line 89 was served (history)
    fetch_log      \* the two latest successful upstream fetches, newest first (history)

vars == <<now, current_date, asteroids, data_cache, time_cache,
          compute_lock, pc, loaded, view, call, fetch_log>>

Sessions == {"s1", "s2"}

\* The instants the clock visits: one second either side of each cache period.
Instants == {t \in {k * TTL + d : k \in 0..MaxPeriods, d \in {-1, 0, 1}} : t >= 0}

NoEntry == [present |-> FALSE, value |-> <<>>, stored_at |-> 0]
NoFrame == [rows |-> <<>>, at |-> 0]
\* via: "none", "cache" (served from the entry), "query" (upstream asked),
\* "raised" (the upstream call failed)
NoCall == [via |-> "none", at |-> 0, expect |-> {}]
NoView ==
    [shown |-> FALSE, df |-> <<>>, criteria |-> DefaultCriteria(<<>>), filtered_df |-> <<>>,
     total |-> 0, hazardous_count |-> 0, closest |-> ClosestMetric(0),
     daily_counts |-> <<>>, topn_df |-> <<>>, last_refresh |-> 0]

(***************************************************************************)
(* @st.cache_data(ttl=3600), lines 68 and 342: an entry stored at time t   *)
(* is served while now < t + ttl.  A miss computes the value under the     *)
(* cache's per-function lock, so one session computes while others wait,   *)
(* and the entry is stored only when the function returns.                 *)
(***************************************************************************)
IsFreshMinutes(entry, t) == entry.present /\ t - entry.stored_at < TTL \div 60

IsFresh(entry, t) == entry.present /\ t - entry.stored_at < TTL

\* The logged fetches whose snapshot has not expired at time t.
Unexpired(log, t) == {log[i] : i \in {j \in 1..Len(log) : t < log[j].at + TTL}}

\* The log after a fetch: the new fetch, then the one before it.
Logged(log, fetch) == IF log = <<>> THEN <<fetch>> ELSE <<fetch, log[1]>>

InitCommon ==
    /\ now = 0
    /\ data_cache = NoEntry
    /\ time_cache = NoEntry
    /\ compute_lock = "free"
    /\ pc = [s \in Sessions |-> "idle"]
    /\ loaded = [s \in Sessions |-> NoFrame]
    /\ view = [s \in Sessions |-> NoView]
    /\ call = [s \in Sessions |-> NoCall]
    /\ fetch_log = <<>>

(***************************************************************************)
(* Line 89, df = load_asteroid_data().                                     *)
(***************************************************************************)
LoadHit(s) ==
    /\ pc[s] = "idle"
    /\ IsFresh(data_cache, now)
    /\ loaded' = [loaded EXCEPT ![s] = [rows |-> data_cache.value, at |-> data_cache.stored_at]]
    /\ call' = [call EXCEPT ![s] = [via |-> "cache", at |-> now, expect |-> Unexpired(fetch_log, now)]]
    /\ pc' = [pc EXCEPT ![s] = "loaded"]
    /\ UNCHANGED <<now, current_date, asteroids, data_cache, time_cache,
                   compute_lock, view, fetch_log>>

LoadMiss(s) ==
    /\ pc[s] = "idle"
    /\ ~IsFresh(data_cache, now)
    /\ compute_lock = "free"
    /\ compute_lock' = s
    /\ call' = [call EXCEPT ![s] = [via |-> "query", at |-> now, expect |-> Unexpired(fetch_log, now)]]
    /\ pc' = [pc EXCEPT ![s] = "fetching"]
    /\ UNCHANGED <<now, current_date, asteroids, data_cache, time_cache,
                   loaded, view, fetch_log>>

\* pd.read_sql returns the rows selected from the table as it is then: the
\* value is stored and returned.
FetchReturn(s, table) ==
    /\ pc[s] = "fetching"
    /\ asteroids' = table
    /\ LET rows == Query(table, current_date)
       IN /\ data_cache' = [present |-> TRUE, value |-> rows, stored_at |-> now]
          /\ loaded' = [loaded EXCEPT ![s] = [rows |-> rows, at |-> now]]
          /\ fetch_log' = Logged(fetch_log, [at |-> now, rows |-> rows])
    /\ compute_lock' = "free"
    /\ pc' = [pc EXCEPT ![s] = "loaded"]
    /\ UNCHANGED <<now, current_date, time_cache, view, call>>

\* A variant that serves the expired entry when the fetch raises.
FetchFailStale(s) ==
    /\ pc[s] = "fetching"
    /\ compute_lock' = "free"
    /\ call' = [call EXCEPT ![s].via = "raised"]
    /\ IF data_cache.present
       THEN /\ loaded' = [loaded EXCEPT ![s] = [rows |-> data_cache.value, at |-> data_cache.stored_at]]
            /\ pc' = [pc EXCEPT ![s] = "loaded"]
       ELSE /\ loaded' = loaded
            /\ pc' = [pc EXCEPT ![s] = "aborted"]
    /\ UNCHANGED <<now, current_date, asteroids, data_cache, time_cache, view, fetch_log>>

\* connect or pd.read_sql raises: nothing catches it, the script run ends at
\* line 89 and nothing is stored.
FetchFail(s) ==
    /\ pc[s] = "fetching"
    /\ compute_lock' = "free"
    /\ call' = [call EXCEPT ![s].via = "raised"]
    /\ pc' = [pc EXCEPT ![s] = "aborted"]
    /\ UNCHANGED <<now, current_date, asteroids, data_cache, time_cache,
                   loaded, view, fetch_log>>

(***************************************************************************)
(* Lines 92-350: the rest of the script run, with the widgets at c.        *)
(***************************************************************************)
\* line 343-344 behind its cache: the time shown, and the entry afterwards
RefreshTime(entry, t) == IF IsFresh(entry, t) THEN entry.value ELSE t
RefreshEntry(entry, t) ==
    IF IsFresh(entry, t) THEN entry ELSE [present |-> TRUE, value |-> t, stored_at |-> t]

\* The top-N chart is drawn only for a non-empty filtered set (line 284).
TopNCharts(filtered_df, top_n) ==
    IF Len(filtered_df) > 0 THEN topn_outcomes(filtered_df, top_n) ELSE {<<>>}

\* What lines 149-348 put on the page for the filtered rows.
Page(df, c, filtered_df, topn_df, last_refresh) ==
    [shown |-> TRUE, df |-> df, criteria |-> c, filtered_df |-> filtered_df,
     total |-> Len(filtered_df),
     hazardous_count |-> HazardousCount(filtered_df),
     closest |-> ClosestMetric(Closest(filtered_df)),
     daily_counts |-> IF Len(filtered_df) > 0 THEN daily_counts(filtered_df) ELSE <<>>,
     topn_df |-> topn_df,
     last_refresh |-> last_refresh]

Pages(df, c, filtered_df, last_refresh) ==
    {Page(df, c, filtered_df, topn_df, last_refresh) :
        topn_df \in TopNCharts(filtered_df, c.top_n)}

\* lines 137-348 on the de-duplicated rows df
Script(df, c, last_refresh) == Pages(df, c, ApplyFilters(df, c), last_refresh)

Render(s, c) ==
    /\ pc[s] = "loaded"
    /\ \E page \in Script(drop_duplicates(loaded[s].rows), c, RefreshTime(time_cache, now)) :
          view' = [view EXCEPT ![s] = page]
    /\ time_cache' = RefreshEntry(time_cache, now)
    /\ pc' = [pc EXCEPT ![s] = "done"]
    /\ UNCHANGED <<now, current_date, asteroids, data_cache, compute_lock,
                   loaded, call, fetch_log>>

\* A widget change or page reload starts the script again from the top.
Rerun(s) ==
    /\ pc[s] \in {"done", "aborted"}
    /\ pc' = [pc EXCEPT ![s] = "idle"]
    /\ loaded' = [loaded EXCEPT ![s] = NoFrame]
    /\ view' = [view EXCEPT ![s] = NoView]
    /\ call' = [call EXCEPT ![s] = NoCall]
    /\ UNCHANGED <<now, current_date, asteroids, data_cache, time_cache,
                   compute_lock, fetch_log>>

(***************************************************************************)
(* The environment.                                                        *)
(***************************************************************************)
Tick ==
    /\ \E t \in Instants : t > now /\ now' = t
    /\ UNCHANGED <<current_date, asteroids, data_cache, time_cache,
                   compute_lock, pc, loaded, view, call, fetch_log>>

\* The contents the upstream table takes while sessions are running.
LiveTables == {<<RowA>>, <<RowB, RowD>>}

(***************************************************************************)
(* Spec: one script run of one session from a cold cache, over every       *)
(* table, current date and widget setting.                                 *)
(***************************************************************************)
Init ==
    /\ InitCommon
    /\ current_date \in CurrentDates
    /\ asteroids \in Tables

Next ==
    \/ LoadMiss("s1")
    \/ FetchReturn("s1", asteroids)
    \/ \E c \in Criteria(drop_duplicates(loaded["s1"].rows)) : Render("s1", c)

Spec == Init /\ [][Next]_vars

(***************************************************************************)
(* SpecCache: interleaved script runs of all sessions over time, with the  *)
(* widgets left at their defaults.                                         *)
(***************************************************************************)
InitCache ==
    /\ InitCommon
    /\ current_date = <<2025, 2, 3>>
    /\ asteroids = <<RowA>>

NextCache ==
    \/ \E s \in Sessions :
          \/ LoadHit(s)
          \/ LoadMiss(s)
          \/ \E table \in LiveTables : FetchReturn(s, table)
          \/ FetchFail(s)
          \/ Render(s, DefaultCriteria(drop_duplicates(loaded[s].rows)))
          \/ Rerun(s)
    \/ Tick

SpecCache == InitCache /\ [][NextCache]_vars

(***************************************************************************)
(* Properties.                                                             *)
(***************************************************************************)
Shown == {s \in Sessions : view[s].shown}
HasFrame == {s \in Sessions : pc[s] \in {"loaded", "done"}}
RowsOf(df) == {df[i] : i \in 1..Len(df)}

\* C1: the Closest Approach metric reads "N/A" exactly when the filtered set is
\* empty; a non-empty filtered set whose minimum miss distance is 0 shows a number.
C1_SentinelIffEmpty ==
    \A s \in Shown : (view[s].closest.text = "N/A") <=> (view[s].filtered_df = <<>>)

\* C2: every record load_asteroid_data returns has its approach date inside the
\* 7-day window that ends at the current date: none later than the current date,
\* none before the window's start.
C2_LoadedInsideWindow ==
    \A s \in HasFrame : \A r \in RowsOf(loaded[s].rows) :
        /\ StrLeq(date_format(MinusDays(current_date, WindowDays)), r.close_approach_date)
        /\ StrLeq(r.close_approach_date, date_format(current_date))

\* C3: the records that reach the filters hold at most one record per
\* (id, close_approach_date), exactly one for every pair the load emitted, and
\* for a repeated pair the first one in load order.
C3_DedupKeepsFirst ==
    \A s \in Shown :
        LET raw == loaded[s].rows
            df == view[s].df
        IN /\ \A i, j \in 1..Len(df) : i < j => ~SameKey(df[i], df[j])
           /\ \A i \in 1..Len(raw) : \E j \in 1..Len(df) : SameKey(df[j], raw[i])
           /\ \A j \in 1..Len(df) : \E i \in 1..Len(raw) :
                 /\ df[j] = raw[i]
                 /\ \A k \in 1..(i - 1) : ~SameKey(raw[k], raw[i])

\* C3 witness: a load that emitted one pair twice with different fields has been
\* de-duplicated and rendered.
C3_Witness ==
    \E s \in Shown :
        /\ Len(view[s].df) < Len(loaded[s].rows)
        /\ \E i, j \in 1..Len(loaded[s].rows) :
              i < j /\ SameKey(loaded[s].rows[i], loaded[s].rows[j])
                    /\ loaded[s].rows[i] # loaded[s].rows[j]

\* C4: a call of load_asteroid_data made after a successful fetch at time t and
\* before t + 3600 asks the upstream nothing and returns that fetch's records;
\* successful fetches are at least 3600 s apart; script runs holding the same
\* snapshot hold identical records.
C4_ServedFromCacheWithinTTL ==
    /\ \A s \in Sessions : \A f \in call[s].expect :
          /\ call[s].via = "cache"
          /\ s \in HasFrame => loaded[s].rows = f.rows
    /\ Len(fetch_log) = 2 => fetch_log[1].at - fetch_log[2].at >= TTL
    /\ \A s, t \in HasFrame : loaded[s].at = loaded[t].at => loaded[s].rows = loaded[t].rows

\* C4 witness: one second before the snapshot expires a session is served from
\* the cache while another session holds the same snapshot.
C4_Witness ==
    \E s, t \in HasFrame :
        /\ s # t
        /\ call[s].via = "cache"
        /\ call[s].expect # {}
        /\ call[s].at = loaded[s].at + TTL - 1
        /\ loaded[t].at = loaded[s].at

\* C5: when the upstream call fails, the script run ends there: it shows nothing,
\* it is given no rows (no expired snapshot, no substitute), nothing is stored,
\* and the cache is left without a fresh entry, so the next call is a miss again.
C5_FailureAbortsRun ==
    /\ [][\A s \in Sessions :
            (call[s].via # "raised" /\ call'[s].via = "raised") =>
                /\ pc'[s] = "aborted"
                /\ view'[s] = NoView
                /\ loaded'[s] = NoFrame
                /\ data_cache' = data_cache
                /\ ~IsFresh(data_cache', now')]_vars
    /\ [](\A s \in Sessions : pc[s] = "aborted" => view[s] = NoView /\ loaded[s] = NoFrame)

\* C5 witness: a fetch has failed while an expired snapshot was still held.
C5_Witness ==
    \E s \in Sessions :
        /\ call[s].via = "raised"
        /\ pc[s] = "aborted"
        /\ data_cache.present
        /\ ~IsFresh(data_cache, now)

\* Stable sort by max_diameter_km, largest first: insertion after the last row
\* that is at least as large.
RECURSIVE StableDescending(_)
StableDescending(df) ==
    IF df = <<>> THEN <<>>
    ELSE LET n == Len(df)
             sorted == StableDescending(SubSeq(df, 1, n - 1))
             ahead == Cardinality({i \in 1..Len(sorted) :
                          sorted[i].max_diameter_km >= df[n].max_diameter_km})
         IN SubSeq(sorted, 1, ahead) \o <<df[n]>> \o SubSeq(sorted, ahead + 1, Len(sorted))

\* C6: for a non-empty filtered set the top-N subset is the first
\* min(top_n, count) records of the stable sort by max_diameter_km descending.
C6_TopNStable ==
    \A s \in Shown :
        view[s].filtered_df # <<>> =>
            view[s].topn_df = HeadRows(StableDescending(view[s].filtered_df), view[s].criteria.top_n)

\* C7: a record that passes the hazard and velocity filters is kept exactly when
\* miss_distance_km <= max_miss_distance * 1_000_000, and a wider max_miss_distance
\* keeps every record a narrower one keeps.
C7_DistanceBoundInclusiveMonotone ==
    \A s \in Shown :
        LET c == view[s].criteria
            others == VelocityFilter(HazardFilter(view[s].df, c.hazardous_filter), c.velocity_range)
        IN /\ view[s].filtered_df =
                SelectSeq(others, LAMBDA r :
                    r.miss_distance_km * StepsPerMillion <= c.max_distance * KmPerMillion)
           /\ \A wider \in DistanceSteps :
                 wider >= c.max_distance =>
                    RowsOf(view[s].filtered_df) \subseteq
                        RowsOf(ApplyFilters(view[s].df, [c EXCEPT !.max_distance = wider]))

\* C7 witness: a record exactly on the bound is kept while another is cut by
\* the distance alone.
C7_Witness ==
    \E s \in Shown :
        LET c == view[s].criteria
            others == VelocityFilter(HazardFilter(view[s].df, c.hazardous_filter), c.velocity_range)
        IN /\ c.max_distance > 0
           /\ \E r \in RowsOf(view[s].filtered_df) :
                 r.miss_distance_km * StepsPerMillion = c.max_distance * KmPerMillion
           /\ Len(view[s].filtered_df) < Len(others)

RECURSIVE SumCounts(_)
SumCounts(rows) == IF rows = <<>> THEN 0 ELSE rows[1].count + SumCounts(Tail(rows))

\* C8: for a non-empty filtered set the daily aggregate has one row per distinct
\* close_approach_date of the filtered set, and its counts add up to the Total
\* Asteroids metric, the number of filtered records.
C8_DailyCountsSumToTotal ==
    \A s \in Shown :
        view[s].filtered_df # <<>> =>
            LET daily == view[s].daily_counts
            IN /\ {daily[k].close_approach_date : k \in 1..Len(daily)} = DatesOf(view[s].filtered_df)
               /\ Len(daily) = Cardinality(DatesOf(view[s].filtered_df))
               /\ SumCounts(daily) = view[s].total
               /\ view[s].total = Len(view[s].filtered_df)

\* C8 witness: an aggregate of two dates, one of them with two records, one of
\* which is not hazardous.
C8_Witness ==
    \E s \in Shown :
        /\ Len(view[s].daily_counts) = 2
        /\ \E k \in 1..2 : view[s].daily_counts[k].count = 2 /\ view[s].daily_counts[k].hazardous = 1

\* C9: the Last Data Refresh time a script run shows is never older than the
\* fetch of the snapshot the run shows.
C9_RefreshTimeNotOlderThanData ==
    \A s \in Sessions : pc[s] = "done" => view[s].last_refresh >= loaded[s].at

\* C10: for a non-empty record set slider_min <= every velocity <= slider_max,
\* the two are at least 0.01 apart, and with the slider at its default the
\* filtered set is the output of the hazard and distance filters.
C10_DefaultRangeKeepsAll ==
    \A s \in Shown :
        view[s].df # <<>> =>
            LET c == view[s].criteria
                b == SliderBounds(view[s].df)
                steps == SliderSteps(view[s].df)
            IN /\ \A r \in RowsOf(view[s].df) :
                     FLeq(b.slider_min, r.velocity_km_s) /\ FLeq(r.velocity_km_s, b.slider_max)
               /\ steps[2] - steps[1] >= 1
               /\ c.velocity_range = DefaultRange(view[s].df) =>
                     view[s].filtered_df =
                        DistanceFilter(HazardFilter(view[s].df, c.hazardous_filter), c.max_distance)

====
